---- MODULE Spec2Model ----
(***************************************************************************)
(* Model of obsidian-to-hugo-daemon.py: the debounced watch handler        *)
(* (DebounceHandler), the tree reconciliation (sync_folders with           *)
(* convert_and_copy / create_index_file) and the publish step              *)
(* (git_commit_and_push).                                                  *)
(*                                                                         *)
(* Names and texts are sequences of one-character strings, so that         *)
(* slugify, splitext and the regular-expression rewrites are computed on   *)
(* characters.  A path is a sequence of names.  Source paths are relative  *)
(* to PUBLIC_RESOURCES_FOLDER, destination paths to HUGO_CONTENT_PATH.     *)
(***************************************************************************)
EXTENDS Naturals, Sequences, FiniteSets, TLC

(***************************************************************************)
(* Characters and strings                                                  *)
(***************************************************************************)
UpperChars == <<"A","B","C","D","E","F","G","H","I","J","K","L","M",
                "N","O","P","Q","R","S","T","U","V","W","X","Y","Z">>

LowerChars == <<"a","b","c","d","e","f","g","h","i","j","k","l","m",
                "n","o","p","q","r","s","t","u","v","w","x","y","z">>

Digits == {"0","1","2","3","4","5","6","7","8","9"}

\* str.lower() on one character
Lower(c) ==
  IF \E i \in 1..26 : UpperChars[i] = c
    THEN LowerChars[CHOOSE i \in 1..26 : UpperChars[i] = c]
    ELSE c

IsLowerAlnum(c) == (\E i \in 1..26 : LowerChars[i] = c) \/ c \in Digits

\* \w of the re module on the characters used here
IsWordChar(c) == IsLowerAlnum(Lower(c)) \/ c = "_"

RECURSIVE Join(_, _)
\* sep.join(parts)
Join(parts, sep) ==
  IF parts = <<>> THEN <<>>
  ELSE IF Len(parts) = 1 THEN parts[1]
  ELSE parts[1] \o sep \o Join(Tail(parts), sep)

RECURSIVE StripLeft(_, _)
StripLeft(s, c) ==
  IF s # <<>> /\ s[1] = c THEN StripLeft(Tail(s), c) ELSE s

RECURSIVE StripRight(_, _)
StripRight(s, c) ==
  IF s # <<>> /\ s[Len(s)] = c THEN StripRight(SubSeq(s, 1, Len(s) - 1), c) ELSE s

RECURSIVE CollapseDash(_)
\* '-{2,}' -> '-'
CollapseDash(s) ==
  IF Len(s) < 2 THEN s
  ELSE IF s[1] = "-" /\ s[2] = "-" THEN CollapseDash(Tail(s))
  ELSE <<s[1]>> \o CollapseDash(Tail(s))

\* slugify(text) of python-slugify with its defaults, on the characters used
\* here: lower-case, every character outside [-a-z0-9] becomes '-', runs of
\* '-' collapse, leading and trailing '-' are stripped.
slugify(text) ==
  LET lowered == [i \in 1..Len(text) |-> Lower(text[i])]
      dashed  == [i \in 1..Len(text) |->
                    IF IsLowerAlnum(lowered[i]) \/ lowered[i] = "-"
                      THEN lowered[i] ELSE "-"]
  IN StripRight(StripLeft(CollapseDash(dashed), "-"), "-")

\* index of the last '.' of s, 0 when there is none
LastDot(s) ==
  IF \E i \in 1..Len(s) : s[i] = "."
    THEN CHOOSE i \in 1..Len(s) : s[i] = "." /\ \A j \in (i+1)..Len(s) : s[j] # "."
    ELSE 0

\* os.path.splitext(name)[0]: the extension starts at the last dot, unless
\* only dots precede that dot (leading dots belong to the stem)
SplitextStem(name) ==
  LET d == LastDot(name)
  IN IF d = 0 \/ \A j \in 1..(d-1) : name[j] = "." THEN name
     ELSE SubSeq(name, 1, d - 1)

DotMd == <<".","m","d">>

\* str.endswith('.md')
EndsWithMd(s) == Len(s) >= 3 /\ SubSeq(s, Len(s) - 2, Len(s)) = DotMd

url_friendly_filename(filename) == slugify(SplitextStem(filename)) \o DotMd

url_friendly_foldername(foldername) == slugify(foldername)

(***************************************************************************)
(* Content transformer                                                     *)
(***************************************************************************)
IsSpace(c) == c = " " \/ c = "\n"

RECURSIVE LStrip(_)
LStrip(s) == IF s # <<>> /\ IsSpace(s[1]) THEN LStrip(Tail(s)) ELSE s

RECURSIVE RStrip(_)
RStrip(s) ==
  IF s # <<>> /\ IsSpace(s[Len(s)]) THEN RStrip(SubSeq(s, 1, Len(s) - 1)) ELSE s

\* str.strip()
Strip(s) == RStrip(LStrip(s))

\* a map (dict) as a function on its keys
EmptyMap == [k \in {} |-> <<>>]

MapPut(m, k, v) == [x \in DOMAIN m \cup {k} |-> IF x = k THEN v ELSE m[x]]

MapDel(m, k) == [x \in DOMAIN m \ {k} |-> m[x]]

RECURSIVE convert_links(_)
\* re.sub(r'\[\[([^\]]+)\]\]', r'[\1](\1)', content)
convert_links(content) ==
  IF content = <<>> THEN <<>>
  ELSE
    LET n == Len(content)
        opens == n >= 2 /\ content[1] = "[" /\ content[2] = "["
        \* the greedy [^\]]+ runs up to the first ']' after the brackets
        hasClose == \E j \in 3..n : content[j] = "]"
        j == CHOOSE j \in 3..n :
               content[j] = "]" /\ \A i \in 3..(j-1) : content[i] # "]"
    IN IF opens /\ hasClose /\ j > 3 /\ j < n /\ content[j+1] = "]"
         THEN LET t == SubSeq(content, 3, j - 1)
              IN <<"[">> \o t \o <<"]", "(">> \o t \o <<")">>
                   \o convert_links(SubSeq(content, j + 2, n))
         ELSE <<content[1]>> \o convert_links(Tail(content))

RECURSIVE WordRun(_)
\* length of the longest prefix of s made of \w characters
WordRun(s) == IF s # <<>> /\ IsWordChar(s[1]) THEN 1 + WordRun(Tail(s)) ELSE 0

RECURSIVE StripIdTags(_)
\* re.sub(r'\^\w+', '', content)
StripIdTags(content) ==
  IF content = <<>> THEN <<>>
  ELSE IF content[1] = "^" /\ WordRun(Tail(content)) > 0
    THEN StripIdTags(SubSeq(content, 2 + WordRun(Tail(content)), Len(content)))
  ELSE <<content[1]>> \o StripIdTags(Tail(content))

MarkOpen == <<"<","m","a","r","k",">">>

MarkClose == <<"<","/","m","a","r","k",">">>

RECURSIVE MarkHighlights(_)
\* re.sub(r'==(.*?)==', r'<mark>\1</mark>', content); '.' matches no newline
MarkHighlights(content) ==
  IF content = <<>> THEN <<>>
  ELSE
    LET n == Len(content)
        opens == n >= 2 /\ content[1] = "=" /\ content[2] = "="
        Closes(k) == k + 1 <= n /\ content[k] = "=" /\ content[k+1] = "="
                       /\ \A i \in 3..(k-1) : content[i] # "\n"
        hasClose == \E k \in 3..n : Closes(k)
        k == CHOOSE k \in 3..n : Closes(k) /\ \A i \in 3..(k-1) : ~Closes(i)
    IN IF opens /\ hasClose
         THEN MarkOpen \o SubSeq(content, 3, k - 1) \o MarkClose
                \o MarkHighlights(SubSeq(content, k + 2, n))
         ELSE <<content[1]>> \o MarkHighlights(Tail(content))

clean_content(content) == MarkHighlights(StripIdTags(content))

(***************************************************************************)
(* A file's content is a record [kind, meta, body].  For a source file     *)
(* kind says what its front matter block is:                               *)
(*   "none"     no front matter fence                                      *)
(*   "map"      a YAML mapping, meta holds its fields                      *)
(*   "scalar"   valid YAML that is not a mapping                           *)
(*   "invalid"  text between the fences that is not valid YAML             *)
(* For a destination file kind is "hugo" (written by convert_and_copy),    *)
(* "index" (written by create_index_file), "manual" (put there by hand)    *)
(* or a source kind (an _index.md copied verbatim by shutil.copy2).        *)
(***************************************************************************)
File(kind, meta, body) == [kind |-> kind, meta |-> meta, body |-> body]

\* frontmatter.load(file): [raised, metadata, content].  yaml.load raises on
\* invalid YAML and python-frontmatter does not catch it; metadata is only
\* updated from a mapping; the content is stripped.
frontmatter_load(file) ==
  CASE file.kind = "invalid" ->
         [raised |-> TRUE, metadata |-> EmptyMap, content |-> <<>>]
    [] file.kind = "map" ->
         [raised |-> FALSE, metadata |-> file.meta, content |-> Strip(file.body)]
    [] OTHER ->
         [raised |-> FALSE, metadata |-> EmptyMap, content |-> Strip(file.body)]

Blog == <<"b","l","o","g">>

\* any(folder.lower() == 'blog' for folder in relative_path.split(os.sep))
HasBlogSegment(relative_path) ==
  \E i \in 1..Len(relative_path) :
    [j \in 1..Len(relative_path[i]) |-> Lower(relative_path[i][j])] = Blog

\* convert_front_matter: the metadata that toml.dumps serialises between the
\* '+++' fences
convert_front_matter(metadata, original_filename, relative_path) ==
  LET title == IF "title" \in DOMAIN metadata THEN metadata["title"]
               ELSE SplitextStem(original_filename)
      titled == MapPut(MapPut(metadata, "title", title), "meta_title", title)
  IN IF HasBlogSegment(relative_path) THEN MapPut(titled, "type", Blog)
     ELSE IF "type" \in DOMAIN titled THEN MapDel(titled, "type")
     ELSE titled

\* the content written by create_index_file
IndexContent(original_folder_name, relative_path) ==
  LET base == MapPut(MapPut(EmptyMap, "title", original_folder_name),
                     "meta_title", original_folder_name)
  IN File("index",
          IF HasBlogSegment(relative_path) THEN MapPut(base, "type", Blog) ELSE base,
          <<>>)

(***************************************************************************)
(* Names and paths                                                         *)
(***************************************************************************)
english == <<"e","n","g","l","i","s","h">>

slovak == <<"s","l","o","v","a","k">>

czech == <<"c","z","e","c","h">>

\* LANGUAGES
LANGUAGES == <<english, slovak, czech>>

resources == <<"r","e","s","o","u","r","c","e","s">>

IndexMd == <<"_","i","n","d","e","x",".","m","d">>

\* folder and file names of the bounded source and destination trees
NameAb == <<"A"," ","b">>

NameA_b == <<"a","-","b">>

NameBlog == <<"B","l","o","g">>

NameNmd == <<"N",".","m","d">>

NameP == <<"P",".","m","d">>

NameNoteMd == <<"n",".","m","d">>

NameManualMd == <<"m","a","n","u","a","l",".","m","d">>

NameAboutMd == <<"a","b","o","u","t",".","m","d">>

NameA == <<"a">>

NameB == <<"B">>

\* the order in which a directory listing returns the names it holds:
\* arbitrary, but the same on every listing of an unchanged directory
NameOrder == <<english, NameAb, NameA_b, NameA, NameB, NameBlog, NameNmd,
               NameNoteMd, NameP, IndexMd, NameManualMd, NameAboutMd>>

Reverse(s) == [i \in 1..Len(s) |-> s[Len(s) + 1 - i]]

\* the names of set S as os.scandir lists them
Listing(S, rev) ==
  LET fwd == SelectSeq(NameOrder, LAMBDA n : n \in S)
  IN IF rev THEN Reverse(fwd) ELSE fwd

Parent(path) == SubSeq(path, 1, Len(path) - 1)

Basename(path) == path[Len(path)]

\* the path itself and every ancestor of it below the root
Prefixes(path) == {SubSeq(path, 1, i) : i \in 1..Len(path)}

\* the names of the entries of set paths that lie directly in directory d
ChildNames(paths, d) ==
  {Basename(p) : p \in {q \in paths : Len(q) = Len(d) + 1 /\ Parent(q) = d}}

Sep == <<"/">>

\* os.path.join(dest, lang_folder, 'resources', url_friendly_foldername(rel)):
\* joining an empty last component names the 'resources' folder itself
ResourcesFolder(lang_folder, rel) ==
  LET slug == url_friendly_foldername(rel)
  IN <<lang_folder, resources>> \o (IF slug = <<>> THEN <<>> ELSE <<slug>>)

\* resources_dir of source folder relative_dir (lines 186-190);
\* os.path.relpath of the language folder to itself is '.'
DestFolderOfDir(relative_dir) ==
  ResourcesFolder(relative_dir[1],
                  IF Len(relative_dir) = 1 THEN <<".">>
                  ELSE Join(Tail(relative_dir), Sep))

\* dest_folder of source file relative_file (lines 197-201); for a file at
\* the source root lang_folder is the file's own name and the relpath '..'
DestFolderOfFile(relative_file) ==
  ResourcesFolder(relative_file[1],
                  IF Len(relative_file) = 1 THEN <<".", ".">>
                  ELSE IF Len(relative_file) = 2 THEN <<".">>
                  ELSE Join(SubSeq(relative_file, 2, Len(relative_file) - 1), Sep))

\* hugo_filepath of convert_and_copy
HugoFilepath(relative_file) ==
  Append(DestFolderOfFile(relative_file),
         url_friendly_filename(Basename(relative_file)))

(***************************************************************************)
(* sync_folders on a destination tree                                      *)
(*                                                                         *)
(* A world w is [fr, dd, df]: the activation record of one sync_folders    *)
(* call, the set of destination directories and the destination files      *)
(* (path -> content).  The source tree is sd (directories) and sf (files). *)
(***************************************************************************)
IdleFrame ==
  [pc |-> "idle", stack |-> <<>>, root |-> <<>>, dirs |-> <<>>, files |-> <<>>,
   src_files_set |-> {}, to_delete |-> {}, deleted |-> {}, err |-> <<>>]

\* os.path.exists(path) in the destination tree
DestExists(w, path) == path \in w.dd \/ path \in DOMAIN w.df \/ path = <<>>

\* os.makedirs(path, exist_ok=True) raises when a file is in the way
MakedirsRaises(w, path) == \E q \in Prefixes(path) : q \in DOMAIN w.df

Makedirs(w, path) == [w EXCEPT !.dd = @ \cup Prefixes(path)]

\* open(path, 'w').write(content) / shutil.copy2 into path
WriteFile(w, path, content) ==
  [w EXCEPT !.df = [q \in DOMAIN @ \cup {path} |->
                      IF q = path THEN content ELSE @[q]]]

RemoveFile(w, path) ==
  [w EXCEPT !.df = [q \in DOMAIN @ \ {path} |-> @[q]]]

\* mutant of Raise: the exception is caught where it is raised and the
\* call goes on with the deletions of lines 213-219
Raise_ThenDelete(w, at) ==
  [w EXCEPT !.fr.pc = "delete", !.fr.err = at,
            !.fr.to_delete = DOMAIN w.df \ w.fr.src_files_set]

\* an exception leaves sync_folders: err names the source entry at fault
Raise(w, at) == [w EXCEPT !.fr.pc = "raised", !.fr.err = at]

\* lines 179-181
sync_enter(w) ==
  [w EXCEPT !.fr = [IdleFrame EXCEPT !.pc = "walk", !.stack = << <<>> >>]]

\* line 183, the next (root, dirs, files) of os.walk(src), top-down; when
\* the walk is exhausted, lines 213-214
walk_next(sd, sf, rev, w) ==
  IF w.fr.stack = <<>>
    THEN [w EXCEPT !.fr.pc = "delete",
                   !.fr.to_delete = DOMAIN w.df \ w.fr.src_files_set]
    ELSE LET top == Head(w.fr.stack)
             dnames == Listing(ChildNames(sd, top), rev)
             fnames == Listing(ChildNames(DOMAIN sf, top), rev)
         IN [w EXCEPT !.fr.root = top,
                      !.fr.dirs = dnames,
                      !.fr.files = fnames,
                      !.fr.stack = [i \in 1..Len(dnames) |-> Append(top, dnames[i])]
                                     \o Tail(w.fr.stack)]

\* mutant of create_index_file: no index file is generated
create_index_file_Never(w, folder_path, original_folder_name, relative_path) == w

\* mutant of create_index_file: the os.path.exists test is dropped
create_index_file_Always(w, folder_path, original_folder_name, relative_path) ==
  WriteFile(w, Append(folder_path, IndexMd),
            IndexContent(original_folder_name, relative_path))

\* create_index_file(folder_path, original_folder_name, relative_path)
create_index_file(w, folder_path, original_folder_name, relative_path) ==
  LET index_file_path == Append(folder_path, IndexMd)
  IN IF ~DestExists(w, index_file_path)
       THEN WriteFile(w, index_file_path,
                      IndexContent(original_folder_name, relative_path))
       ELSE w

\* lines 184-193, one iteration of the loop over dirs
dir_step(w) ==
  LET dir_name == Head(w.fr.dirs)
      relative_dir == Append(w.fr.root, dir_name)
      resources_dir == DestFolderOfDir(relative_dir)
      rest == [w EXCEPT !.fr.dirs = Tail(@)]
  IN IF MakedirsRaises(w, resources_dir) THEN Raise(w, relative_dir)
     ELSE create_index_file(Makedirs(rest, resources_dir), resources_dir,
                            dir_name, relative_dir)

\* convert_and_copy(filepath, dest_folder, relative_path):
\* [raised, w, new_filepath], new_filepath <<>> for None
convert_and_copy(w, file, dest_folder, relative_path) ==
  LET post == frontmatter_load(file)
      content == clean_content(convert_links(post.content))
      front_matter == convert_front_matter(post.metadata, Basename(relative_path),
                                           relative_path)
      hugo_filepath == Append(dest_folder,
                              url_friendly_filename(Basename(relative_path)))
  IN IF Basename(relative_path) = IndexMd
       THEN [raised |-> FALSE, w |-> w, new_filepath |-> <<>>]
     ELSE IF post.raised \/ MakedirsRaises(w, dest_folder) \/ hugo_filepath \in w.dd
       THEN [raised |-> TRUE, w |-> w, new_filepath |-> <<>>]
       ELSE [raised |-> FALSE,
             w |-> WriteFile(Makedirs(w, dest_folder), hugo_filepath,
                             File("hugo", front_matter, content)),
             new_filepath |-> hugo_filepath]

\* mutant of AddProduced: the produced path is not recorded
AddProduced_Forget(w, new_filepath) == w

\* lines 209-210: if new_filepath: src_files_set.add(new_filepath)
AddProduced(w, new_filepath) ==
  IF new_filepath = <<>> THEN w
  ELSE [w EXCEPT !.fr.src_files_set = @ \cup {new_filepath}]

\* lines 195-210, one iteration of the loop over files
file_step(sf, w) ==
  LET file_name == Head(w.fr.files)
      relative_file == Append(w.fr.root, file_name)
      dest_folder == DestFolderOfFile(relative_file)
      rest == [w EXCEPT !.fr.files = Tail(@)]
  IN IF file_name = IndexMd
       THEN LET dest_file == Append(dest_folder, file_name)
            IN IF DestExists(w, dest_file) THEN rest
               \* shutil.copy2 into a folder that does not exist
               ELSE IF ~DestExists(w, dest_folder) THEN Raise(w, relative_file)
               ELSE WriteFile(rest, dest_file, sf[relative_file])
       ELSE LET r == convert_and_copy(rest, sf[relative_file], dest_folder,
                                      relative_file)
            IN IF r.raised THEN Raise(w, relative_file)
               ELSE AddProduced(r.w, r.new_filepath)

\* mutant of Deletable: the test for the name _index.md is dropped
Deletable_AnyName(w, f) == f \in DOMAIN w.df

\* the test of line 217
Deletable(w, f) == f \in DOMAIN w.df /\ Basename(f) # IndexMd

\* lines 216-219, one iteration of the loop over files_to_delete
delete_step(w, f) ==
  LET rest == [w EXCEPT !.fr.to_delete = @ \ {f}]
  IN IF Deletable(w, f)
       THEN [RemoveFile(rest, f) EXCEPT !.fr.deleted = @ \cup {f}]
       ELSE rest

\* sync_folders returns
sync_return(w) == [w EXCEPT !.fr.pc = "returned"]

Ended(fr) == fr.pc \in {"returned", "raised"}

RECURSIVE RunSync(_, _, _, _)
\* a whole sync_folders(src, dest) call from the world w it is entered in
RunSync(sd, sf, rev, w) ==
  CASE w.fr.pc = "idle" -> RunSync(sd, sf, rev, sync_enter(w))
    [] w.fr.pc = "walk" /\ w.fr.dirs # <<>> -> RunSync(sd, sf, rev, dir_step(w))
    [] w.fr.pc = "walk" /\ w.fr.dirs = <<>> /\ w.fr.files # <<>> ->
         RunSync(sd, sf, rev, file_step(sf, w))
    [] w.fr.pc = "walk" /\ w.fr.dirs = <<>> /\ w.fr.files = <<>> ->
         RunSync(sd, sf, rev, walk_next(sd, sf, rev, w))
    [] w.fr.pc = "delete" /\ w.fr.to_delete # {} ->
         RunSync(sd, sf, rev, delete_step(w, CHOOSE f \in w.fr.to_delete : TRUE))
    [] w.fr.pc = "delete" /\ w.fr.to_delete = {} -> RunSync(sd, sf, rev, sync_return(w))
    [] OTHER -> w

(***************************************************************************)
(* State                                                                   *)
(***************************************************************************)
VARIABLES
  srcDirs,        \* folders below PUBLIC_RESOURCES_FOLDER
  srcFiles,       \* files below PUBLIC_RESOURCES_FOLDER: path -> content
  scanRev,        \* which of the two listing orders the file system uses
  destDirs,       \* folders below HUGO_CONTENT_PATH
  destFiles,      \* files below HUGO_CONTENT_PATH: path -> content
  frame,          \* the activation record of sync_folders (SpecSync)
  startDest,      \* history: destFiles when the current or last pass began
  rerun,          \* history: that pass began after an earlier pass had ended
                  \*          with no source change in between
  clean,          \* history: a pass has ended and the source is unchanged since
  removed,        \* history: source files removed since the last pass began
  lost,           \* history: source files removed between the pass before
                  \*          and the current or last pass
  nChanges,       \* history: number of source changes made
  obs,            \* the observer thread inside handle_event: [pc]
  timer,          \* self.timer: 0 for None, else the number of a Timer
  timers,         \* the Timer threads: number -> [st, left, at_fire]
  modified_files, \* self.modified_files
  repo,           \* the Hugo repository: [head, ahead, remote_new, behind]
  sinceEvent,     \* history: seconds since handle_event last took an event,
                  \*          capped at DEBOUNCE_DELAY
  bursts,         \* history: events taken while no timer was waiting
  started         \* history: calls of process_files

fsVars == <<srcDirs, srcFiles, scanRev, destDirs, destFiles>>

syncVars == <<frame, startDest, rerun, clean, removed, lost, nChanges>>

daemonVars == <<obs, timer, timers, modified_files, repo, sinceEvent, bursts, started>>

vars == <<fsVars, syncVars, daemonVars>>

World == [fr |-> frame, dd |-> destDirs, df |-> destFiles]

(***************************************************************************)
(* Bounded universes                                                       *)
(***************************************************************************)
\* number of changes made to the source tree in one behaviour
MaxSrcChanges == 1

DirEn == <<english>>

DirAb == <<english, NameAb>>

DirA_b == <<english, NameA_b>>

DirBlog == <<english, NameBlog>>

\* en/a/B is nested one level deeper than en/a-b and en/A b
DirA == <<english, NameA>>

DirAB == <<english, NameA, NameB>>

SrcDirUniverse == {DirEn, DirAb, DirA_b, DirBlog, DirA, DirAB}

\* en/A b/N.md and en/a-b/n.md map to the same artifact; P.md is its sibling
FileAbN == <<english, NameAb, NameNmd>>

FileA_bN == <<english, NameA_b, NameNoteMd>>

FileAbP == <<english, NameAb, NameP>>

FileAbIndex == <<english, NameAb, IndexMd>>

FileRootIndex == <<IndexMd>>

FileBlogN == <<english, NameBlog, NameNmd>>

FileRootN == <<NameNmd>>

\* a file named Blog, without extension, in a folder that is no blog folder
FileAbBlog == <<english, NameAb, NameBlog>>

FileABN == <<english, NameA, NameB, NameNmd>>

SrcFileUniverse ==
  {FileAbN, FileA_bN, FileAbP, FileAbIndex, FileRootIndex, FileBlogN, FileRootN,
   FileAbBlog, FileABN}

\* a note with a mapping header, links, a highlight and an id tag
ContentMap ==
  File("map",
       MapPut(MapPut(EmptyMap, "title", <<"T">>), "type", <<"x">>),
       <<"[","[","p","]","]"," ","=","=","h","=","="," ","^","a","1","\n">>)

\* a note without front matter
ContentNone == File("none", EmptyMap, <<"x">>)

\* a note whose front matter is not valid YAML
ContentInvalid == File("invalid", EmptyMap, <<"x">>)

ContentUniverse == {ContentMap, ContentNone, ContentInvalid}

\* files put into the destination tree by hand
ManualFile == File("manual", EmptyMap, <<"m">>)

ManualIndex == File("manual", MapPut(EmptyMap, "title", <<"M">>), <<>>)

DestA_b == <<english, resources, NameA_b>>

ManualUniverse ==
  {<<Append(DestA_b, NameManualMd), ManualFile>>,
   <<Append(DestA_b, IndexMd), ManualIndex>>,
   <<<<english, NameAboutMd>>, ManualFile>>}

\* lines 26-28: content/<lang>/resources exists for every language
BootstrapDirs ==
  UNION {Prefixes(<<LANGUAGES[i], resources>>) : i \in 1..Len(LANGUAGES)}

FilesOf(pairs) ==
  [p \in {pr[1] : pr \in pairs} |-> (CHOOSE pr \in pairs : pr[1] = p)[2]]

InitSrcTrees ==
  {[dirs |-> {DirEn, DirAb},
    files |-> FilesOf({<<FileAbN, ContentMap>>, <<FileAbP, ContentNone>>})],
   [dirs |-> {DirEn, DirAb, DirA_b},
    files |-> FilesOf({<<FileAbN, ContentMap>>, <<FileA_bN, ContentNone>>,
                       <<FileAbIndex, ContentNone>>})],
   [dirs |-> {DirEn, DirA, DirAB, DirA_b},
    files |-> FilesOf({<<FileABN, ContentMap>>, <<FileA_bN, ContentNone>>})]}

\* The destination tree the daemon starts with: the bootstrapped folders, or
\* the tree an earlier run of the daemon left for this source tree, and in it
\* any of the files put there by hand.
InitFs ==
  /\ \E t \in InitSrcTrees : srcDirs = t.dirs /\ srcFiles = t.files
  /\ scanRev \in BOOLEAN
  /\ \E m \in SUBSET ManualUniverse, synced \in BOOLEAN :
       LET fresh == [fr |-> IdleFrame, dd |-> BootstrapDirs, df |-> FilesOf({})]
           w0 == IF synced THEN RunSync(srcDirs, srcFiles, scanRev, fresh) ELSE fresh
           manual == FilesOf(m)
       IN /\ destFiles = [p \in DOMAIN w0.df \cup DOMAIN manual |->
                            IF p \in DOMAIN manual THEN manual[p] ELSE w0.df[p]]
          /\ destDirs = w0.dd \cup UNION {Prefixes(Parent(pr[1])) : pr \in m}

\* no sync_folders call has been made
InitPass ==
  /\ frame = IdleFrame
  /\ rerun = FALSE
  /\ clean = FALSE
  /\ removed = {}
  /\ lost = {}
  /\ nChanges = 0

InitSync == InitPass /\ startDest = destFiles

\* number of events that handle_event takes, hence of Timer objects
MaxEvents == 2

\* seconds that pass in one step of the clock
TickSeconds == 60

\* DEBOUNCE_DELAY, in seconds
DEBOUNCE_DELAY == 120

TimerIds == 1..MaxEvents

NoTimer == [st |-> "none", left |-> 0, at_fire |-> {}]

\* DebounceHandler.__init__ and an unused repository
InitDaemon ==
  /\ obs = [pc |-> "idle"]
  /\ timer = 0
  /\ timers = [i \in TimerIds |-> NoTimer]
  /\ modified_files = {}
  /\ repo = [head |-> <<>>, ahead |-> FALSE, remote_new |-> FALSE, behind |-> FALSE]
  /\ sinceEvent = DEBOUNCE_DELAY
  /\ bursts = 0
  /\ started = 0

Init == InitFs /\ InitSync /\ InitDaemon

(***************************************************************************)
(* SpecSync: sync_folders, run step by step, and changes of the source     *)
(* tree between two runs                                                   *)
(***************************************************************************)
SetWorld(w) ==
  /\ frame' = w.fr
  /\ destDirs' = w.dd
  /\ destFiles' = w.df

Between == frame.pc \in {"idle", "returned", "raised"}

\* process_files calls sync_folders(PUBLIC_RESOURCES_FOLDER, HUGO_CONTENT_PATH)
SyncEnter ==
  /\ Between
  /\ SetWorld(sync_enter(World))
  /\ startDest' = destFiles
  /\ rerun' = clean
  /\ lost' = removed
  /\ removed' = {}
  /\ UNCHANGED <<srcDirs, srcFiles, scanRev, clean, nChanges>>
  /\ UNCHANGED daemonVars

WalkNext ==
  /\ frame.pc = "walk" /\ frame.dirs = <<>> /\ frame.files = <<>>
  /\ SetWorld(walk_next(srcDirs, srcFiles, scanRev, World))
  /\ UNCHANGED <<srcDirs, srcFiles, scanRev, startDest, rerun, clean, removed, lost, nChanges>>
  /\ UNCHANGED daemonVars

DirStep ==
  /\ frame.pc = "walk" /\ frame.dirs # <<>>
  /\ SetWorld(dir_step(World))
  /\ clean' = (clean \/ frame'.pc = "raised")
  /\ UNCHANGED <<srcDirs, srcFiles, scanRev, startDest, rerun, removed, lost, nChanges>>
  /\ UNCHANGED daemonVars

FileStep ==
  /\ frame.pc = "walk" /\ frame.dirs = <<>> /\ frame.files # <<>>
  /\ SetWorld(file_step(srcFiles, World))
  /\ clean' = (clean \/ frame'.pc = "raised")
  /\ UNCHANGED <<srcDirs, srcFiles, scanRev, startDest, rerun, removed, lost, nChanges>>
  /\ UNCHANGED daemonVars

DeleteStep ==
  /\ frame.pc = "delete"
  /\ \E f \in frame.to_delete : SetWorld(delete_step(World, f))
  /\ UNCHANGED <<srcDirs, srcFiles, scanRev, startDest, rerun, clean, removed, lost, nChanges>>
  /\ UNCHANGED daemonVars

SyncReturn ==
  /\ frame.pc = "delete" /\ frame.to_delete = {}
  /\ SetWorld(sync_return(World))
  /\ clean' = TRUE
  /\ UNCHANGED <<srcDirs, srcFiles, scanRev, startDest, rerun, removed, lost, nChanges>>
  /\ UNCHANGED daemonVars

\* The vault's owner changes the source tree between two passes.
SrcChanged ==
  /\ nChanges' = nChanges + 1
  /\ clean' = FALSE
  /\ UNCHANGED <<scanRev, destDirs, destFiles, frame, startDest, rerun, lost>>
  /\ UNCHANGED daemonVars

CanChange == Between /\ nChanges < MaxSrcChanges

\* a file is created or rewritten
SrcWrite ==
  /\ CanChange
  /\ \E p \in SrcFileUniverse, c \in ContentUniverse :
       /\ Parent(p) = <<>> \/ Parent(p) \in srcDirs
       /\ p \in DOMAIN srcFiles => srcFiles[p] # c
       /\ Basename(p) = IndexMd => c = ContentNone
       /\ srcFiles' = [q \in DOMAIN srcFiles \cup {p} |->
                         IF q = p THEN c ELSE srcFiles[q]]
  /\ UNCHANGED <<srcDirs, removed>>
  /\ SrcChanged

\* a file is deleted
SrcRemove ==
  /\ CanChange
  /\ \E p \in DOMAIN srcFiles :
       /\ srcFiles' = [q \in DOMAIN srcFiles \ {p} |-> srcFiles[q]]
       /\ removed' = removed \cup {p}
  /\ UNCHANGED srcDirs
  /\ SrcChanged

IsBelow(p, d) == Len(p) > Len(d) /\ SubSeq(p, 1, Len(d)) = d

\* a folder is created
SrcMkdir ==
  /\ CanChange
  /\ \E d \in SrcDirUniverse \ srcDirs :
       /\ Parent(d) = <<>> \/ Parent(d) \in srcDirs
       /\ srcDirs' = srcDirs \cup {d}
  /\ UNCHANGED <<srcFiles, removed>>
  /\ SrcChanged

\* a folder is deleted with all it holds
SrcRmdir ==
  /\ CanChange
  /\ \E d \in srcDirs :
       LET below == {p \in DOMAIN srcFiles : IsBelow(p, d)}
       IN /\ srcDirs' = {e \in srcDirs : e # d /\ ~IsBelow(e, d)}
          /\ srcFiles' = [q \in DOMAIN srcFiles \ below |-> srcFiles[q]]
          /\ removed' = removed \cup below
  /\ SrcChanged

\* a folder that holds no folders is renamed within its parent
SrcRenameDir ==
  /\ CanChange
  /\ \E d \in srcDirs, e \in SrcDirUniverse \ srcDirs :
       LET moved == {p \in DOMAIN srcFiles : Parent(p) = d}
           kept == DOMAIN srcFiles \ moved
       IN /\ Parent(e) = Parent(d)
          /\ \A x \in srcDirs : ~IsBelow(x, d)
          /\ srcDirs' = (srcDirs \ {d}) \cup {e}
          /\ srcFiles' = [q \in kept \cup {Append(e, Basename(p)) : p \in moved} |->
                            IF q \in kept THEN srcFiles[q]
                            ELSE srcFiles[Append(d, Basename(q))]]
          /\ removed' = removed \cup moved
  /\ SrcChanged

NextSync ==
  \/ SyncEnter
  \/ WalkNext
  \/ DirStep
  \/ FileStep
  \/ DeleteStep
  \/ SyncReturn
  \/ SrcWrite
  \/ SrcRemove
  \/ SrcMkdir
  \/ SrcRmdir
  \/ SrcRenameDir

SpecSync == Init /\ [][NextSync]_vars

(***************************************************************************)
(* Spec: the daemon.  The observer thread runs handle_event, one statement *)
(* group at a time; every Timer is a thread of its own that waits, fires   *)
(* and runs process_files; the clock advances in steps of TickSeconds.     *)
(* No lock orders the threads.  A call of sync_folders is one step here    *)
(* (RunSync); SpecSync runs it step by step.                               *)
(***************************************************************************)
\* watchdog events: two notes, a folder, and a file that is not a note
EventUniverse ==
  {[src_path |-> FileAbN, is_directory |-> FALSE],
   [src_path |-> FileAbP, is_directory |-> FALSE],
   [src_path |-> DirAb, is_directory |-> TRUE],
   [src_path |-> DirAb, is_directory |-> FALSE]}

\* a file an earlier run left in the destination tree
StaleUniverse == {<<Append(DestA_b, NameManualMd), ManualFile>>}

\* the daemon starts on the first source tree and a bootstrapped destination,
\* in which an earlier run may have left a file
InitFsDaemon ==
  /\ \E t \in InitSrcTrees, c \in {ContentMap, ContentInvalid} :
       /\ FileAbP \in DOMAIN t.files
       /\ srcDirs = t.dirs
       /\ srcFiles = [t.files EXCEPT ![FileAbN] = c]
  /\ scanRev = FALSE
  /\ \E m \in SUBSET StaleUniverse :
       /\ destDirs = BootstrapDirs \cup UNION {Prefixes(Parent(pr[1])) : pr \in m}
       /\ destFiles = FilesOf(m)

\* the daemon's passes are whole sync_folders calls; the bookkeeping of the
\* stepwise pass stays as it is
InitSpec == InitFsDaemon /\ InitPass /\ startDest = FilesOf({}) /\ InitDaemon

Min(a, b) == IF a < b THEN a ELSE b

Monus(a, b) == IF a > b THEN a - b ELSE 0

\* Timer objects created so far
NTimers == Cardinality({i \in TimerIds : timers[i].st # "none"})

\* the Timer that self.timer refers to is still waiting
TimerWaiting == timer # 0 /\ timers[timer].st = "waiting"

\* event.src_path.endswith('.md')
Qualifies(e) == ~e.is_directory /\ EndsWithMd(Join(e.src_path, Sep))

\* lines 160-165: handle_event up to self.modified_files.add(event.src_path)
HandleEvent ==
  /\ obs.pc = "idle"
  /\ \E e \in EventUniverse :
       IF Qualifies(e)
         THEN /\ NTimers < MaxEvents
              /\ modified_files' = modified_files \cup {e.src_path}
              /\ obs' = [pc |-> "cancel"]
              /\ sinceEvent' = 0
              /\ bursts' = IF TimerWaiting THEN bursts ELSE bursts + 1
         ELSE UNCHANGED <<modified_files, obs, sinceEvent, bursts>>
  /\ UNCHANGED <<timer, timers, repo, started>>
  /\ UNCHANGED <<fsVars, syncVars>>

\* Timer.cancel(): without effect on a timer that has fired
Cancel(ts, i) ==
  IF ts[i].st = "waiting" THEN [ts EXCEPT ![i] = [NoTimer EXCEPT !.st = "cancelled"]]
  ELSE ts

\* lines 166-167: if self.timer: self.timer.cancel()
HandleCancel ==
  /\ obs.pc = "cancel"
  /\ timers' = IF timer # 0 THEN Cancel(timers, timer) ELSE timers
  /\ obs' = [obs EXCEPT !.pc = "arm"]
  /\ UNCHANGED <<timer, modified_files, repo, sinceEvent, bursts, started>>
  /\ UNCHANGED <<fsVars, syncVars>>

\* mutant of HandleArm: the Timer is created and its start() is left out
HandleArm_NoStart ==
  /\ obs.pc = "arm"
  /\ LET id == NTimers + 1
     IN /\ timers' = [timers EXCEPT ![id] = [NoTimer EXCEPT !.st = "cancelled"]]
        /\ timer' = id
  /\ obs' = [pc |-> "idle"]
  /\ UNCHANGED <<modified_files, repo, sinceEvent, bursts, started>>
  /\ UNCHANGED <<fsVars, syncVars>>

\* lines 168-169: self.timer = Timer(DEBOUNCE_DELAY, self.process_files); start()
HandleArm ==
  /\ obs.pc = "arm"
  /\ LET id == NTimers + 1
     IN /\ timers' = [timers EXCEPT ![id] = [NoTimer EXCEPT !.st = "waiting",
                                                           !.left = DEBOUNCE_DELAY]]
        /\ timer' = id
  /\ obs' = [pc |-> "idle"]
  /\ UNCHANGED <<modified_files, repo, sinceEvent, bursts, started>>
  /\ UNCHANGED <<fsVars, syncVars>>

\* TickSeconds pass; the statements of handle_event take no such time
Tick ==
  /\ obs.pc = "idle"
  /\ sinceEvent < DEBOUNCE_DELAY \/ \E i \in TimerIds :
                                      timers[i].st = "waiting" /\ timers[i].left > 0
  /\ sinceEvent' = Min(sinceEvent + TickSeconds, DEBOUNCE_DELAY)
  /\ timers' = [i \in TimerIds |->
                  IF timers[i].st = "waiting"
                    THEN [timers[i] EXCEPT !.left = Monus(@, TickSeconds)]
                    ELSE timers[i]]
  /\ UNCHANGED <<obs, timer, modified_files, repo, bursts, started>>
  /\ UNCHANGED <<fsVars, syncVars>>

\* the Timer thread ends, by a return ("done") or by an exception that
\* nothing catches ("died"); its local variables end with it
ThreadEnds(ts, i, how) == [ts EXCEPT ![i] = [NoTimer EXCEPT !.st = how]]

UncaughtInThread_Exits(o) == [o EXCEPT !.pc = "exited"]

\* an exception that process_files does not catch is reported by the Timer
\* thread's excepthook; the observer thread is left as it is
UncaughtInThread(o) == o

\* Timer.run: the wait has timed out and the timer was not cancelled, so it
\* calls process_files (line 171-172)
TimerFire(i) ==
  /\ timers[i].st = "waiting" /\ timers[i].left = 0
  /\ timers' = [timers EXCEPT ![i].st = "sync", ![i].at_fire = modified_files]
  /\ started' = started + 1
  /\ UNCHANGED <<obs, timer, modified_files, repo, sinceEvent, bursts>>
  /\ UNCHANGED <<fsVars, syncVars>>

\* line 174: sync_folders(PUBLIC_RESOURCES_FOLDER, HUGO_CONTENT_PATH); an
\* exception ends the Timer thread
PassSync(i) ==
  /\ timers[i].st = "sync"
  /\ \E w \in {RunSync(srcDirs, srcFiles, scanRev,
                        [fr |-> IdleFrame, dd |-> destDirs, df |-> destFiles])} :
       /\ destDirs' = w.dd
       /\ destFiles' = w.df
       /\ timers' = IF w.fr.pc = "raised" THEN ThreadEnds(timers, i, "died")
                     ELSE [timers EXCEPT ![i].st = "fetch"]
       /\ obs' = IF w.fr.pc = "raised" THEN UncaughtInThread(obs) ELSE obs
  /\ UNCHANGED <<srcDirs, srcFiles, scanRev>>
  /\ UNCHANGED <<timer, modified_files, repo, sinceEvent, bursts, started>>
  /\ UNCHANGED syncVars

\* lines 125-129: origin.fetch()
GitFetch(i) ==
  /\ timers[i].st = "fetch"
  /\ \E ok \in BOOLEAN :
       IF ok
         THEN /\ repo' = [repo EXCEPT !.behind = @ \/ repo.remote_new,
                                      !.remote_new = FALSE]
              /\ timers' = [timers EXCEPT ![i].st = "merge"]
              /\ UNCHANGED obs
         ELSE /\ timers' = ThreadEnds(timers, i, "died")
              /\ obs' = UncaughtInThread(obs)
              /\ UNCHANGED repo
  /\ UNCHANGED <<timer, modified_files, sinceEvent, bursts, started>>
  /\ UNCHANGED <<fsVars, syncVars>>

\* current_branch.tracking_branch().commit != current_branch.commit
TrackingDiffers(r) == r.behind \/ r.ahead

\* lines 132-134: is the tracking branch's commit another than the local one
GitCheck(i) ==
  /\ timers[i].st = "merge"
  /\ timers' = [timers EXCEPT ![i].st =
                  IF TrackingDiffers(repo) THEN "merging" ELSE "commit"]
  /\ UNCHANGED <<obs, timer, modified_files, repo, sinceEvent, bursts, started>>
  /\ UNCHANGED <<fsVars, syncVars>>

\* line 135: repo.git.merge(tracking branch): with commits to take over it
\* can fail on a conflict; with none it changes nothing
GitMerge(i) ==
  /\ timers[i].st = "merging"
  /\ IF repo.behind
       THEN \E ok \in BOOLEAN :
              IF ok
                THEN /\ repo' = [repo EXCEPT !.behind = FALSE]
                     /\ timers' = [timers EXCEPT ![i].st = "commit"]
                     /\ UNCHANGED obs
                ELSE /\ timers' = ThreadEnds(timers, i, "died")
                     /\ obs' = UncaughtInThread(obs)
                     /\ UNCHANGED repo
       ELSE /\ timers' = [timers EXCEPT ![i].st = "commit"]
            /\ UNCHANGED <<repo, obs>>
  /\ UNCHANGED <<timer, modified_files, sinceEvent, bursts, started>>
  /\ UNCHANGED <<fsVars, syncVars>>

\* lines 137-139: everything is staged and committed; the message lists
\* self.modified_files as it is now
GitCommit(i) ==
  /\ timers[i].st = "commit"
  /\ timers' = [timers EXCEPT ![i].st = "push"]
  /\ repo' = [repo EXCEPT !.head = <<modified_files>>, !.ahead = TRUE]
  /\ UNCHANGED <<obs, timer, modified_files, sinceEvent, bursts, started>>
  /\ UNCHANGED <<fsVars, syncVars>>

\* line 140: origin.push(branch).  A rejected push is reported in the
\* returned PushInfo and raises nothing; a push that cannot reach the remote
\* raises.
GitPush(i) ==
  /\ timers[i].st = "push"
  /\ \E outcome \in {"ok", "rejected", "error"} :
       /\ outcome = "ok" => ~(repo.behind \/ repo.remote_new)
       /\ outcome = "rejected" => (repo.behind \/ repo.remote_new)
       /\ repo' = IF outcome = "ok" THEN [repo EXCEPT !.ahead = FALSE]
                  ELSE repo
       /\ timers' = IF outcome = "error" THEN ThreadEnds(timers, i, "died")
                     ELSE [timers EXCEPT ![i].st = "clear"]
       /\ obs' = IF outcome = "error" THEN UncaughtInThread(obs) ELSE obs
  /\ UNCHANGED <<timer, modified_files, sinceEvent, bursts, started>>
  /\ UNCHANGED <<fsVars, syncVars>>

\* line 176: self.modified_files.clear()
PassClear(i) ==
  /\ timers[i].st = "clear"
  /\ modified_files' = {}
  /\ timers' = ThreadEnds(timers, i, "done")
  /\ UNCHANGED <<obs, timer, repo, sinceEvent, bursts, started>>
  /\ UNCHANGED <<fsVars, syncVars>>

\* someone else pushes to origin
RemotePush ==
  /\ ~repo.remote_new /\ ~repo.behind
  /\ repo' = [repo EXCEPT !.remote_new = TRUE]
  /\ UNCHANGED <<obs, timer, timers, modified_files, sinceEvent, bursts, started>>
  /\ UNCHANGED <<fsVars, syncVars>>

\* the vault's owner repairs the header of the note english/A b/N.md
EditNote ==
  /\ srcFiles[FileAbN] = ContentInvalid
  /\ srcFiles' = [srcFiles EXCEPT ![FileAbN] = ContentMap]
  /\ UNCHANGED <<srcDirs, scanRev, destDirs, destFiles>>
  /\ UNCHANGED <<syncVars, daemonVars>>

Next ==
  \/ HandleEvent
  \/ HandleCancel
  \/ HandleArm
  \/ Tick
  \/ \E i \in TimerIds : TimerFire(i)
  \/ \E i \in TimerIds : PassSync(i)
  \/ \E i \in TimerIds : GitFetch(i)
  \/ \E i \in TimerIds : GitCheck(i)
  \/ \E i \in TimerIds : GitMerge(i)
  \/ \E i \in TimerIds : GitCommit(i)
  \/ \E i \in TimerIds : GitPush(i)
  \/ \E i \in TimerIds : PassClear(i)
  \/ RemotePush
  \/ EditNote

Spec == InitSpec /\ [][Next]_vars

\* FairSpec: the observer thread and every Timer thread keep running, and
\* time passes
FairSpec ==
  /\ Spec
  /\ WF_vars(HandleCancel)
  /\ WF_vars(HandleArm)
  /\ WF_vars(Tick)
  /\ \A i \in TimerIds : WF_vars(TimerFire(i))

(***************************************************************************)
(* Claims about the daemon, checked under Spec and FairSpec                *)
(***************************************************************************)
\* the states of a Timer thread inside process_files
InPass == {"sync", "fetch", "merge", "merging", "commit", "push", "clear"}

\* the step in which Timer i calls process_files
Fires(i) == timers[i].st = "waiting" /\ timers'[i].st = "sync"

\* C1: qualifying events that each arrive before the timer armed by the one
\* before has fired start exactly one pass, and the pass starts only once
\* the debounce delay has passed since the last of them: no more passes
\* are started than there are such groups of events, and a timer fires
\* only DEBOUNCE_DELAY seconds or more after the latest event.
C1_Coalesced ==
  [][/\ \A i \in TimerIds : Fires(i) => sinceEvent >= DEBOUNCE_DELAY
     /\ started' <= bursts']_vars

\* C2: at most one pass is in flight: process_files is never entered while
\* an earlier call of it has not returned.
C2_OnePassInFlight == Cardinality({i \in TimerIds : timers[i].st \in InPass}) <= 1

\* C9: the watch loop survives every failure: once a pass has died of an
\* exception, in sync_folders or in git_commit_and_push, the handler is
\* still there, and an event it takes arms a timer and leads to a pass of
\* a later timer.
C9_Survives ==
  /\ [](obs.pc \in {"idle", "cancel", "arm"})
  /\ \A i \in TimerIds :
       (timers[i].st = "died" /\ obs.pc = "cancel")
         ~> (\E j \in TimerIds : j > i /\ timers[j].st = "sync")

C9_Witness ==
  \E i, j \in TimerIds :
    i < j /\ timers[i].st = "died" /\ timers[j].st = "sync" /\ bursts = started

\* C10: a pass reports and clears exactly the paths that were pending when
\* its timer fired: the commit message lists those paths, and the clear at
\* the end of the pass removes those and leaves every path that arrived
\* during the pass.
C10_FreshPending ==
  [][\A i \in TimerIds :
       /\ (timers[i].st = "commit" /\ timers'[i].st = "push")
            => repo'.head = <<timers[i].at_fire>>
       /\ (timers[i].st = "clear" /\ timers'[i].st = "done")
            => modified_files' = modified_files \ timers[i].at_fire]_vars


(***************************************************************************)
(* Claims about sync_folders, checked under SpecSync                       *)
(***************************************************************************)

\* C3: when sync_folders has run again with no source change since the run
\* before it, the destination files are those the earlier run left, content
\* for content, and the second run has deleted no file.
C3_Idempotent ==
  (Ended(frame) /\ rerun) => (destFiles = startDest /\ frame.deleted = {})

\* a second run that returned, after a first that had artifacts to produce
C3_Witness ==
  /\ frame.pc = "returned" /\ rerun
  /\ frame.src_files_set # {}
  /\ \E p \in frame.src_files_set : destFiles[p].kind = "hugo"

SourceNotes == {p \in DOMAIN srcFiles : Basename(p) # IndexMd}

\* C4: at the end of every pass every source file that is not named
\* _index.md has an artifact at the destination path derived from its path.
C4_Complete ==
  (Ended(frame) /\ clean) => \A p \in SourceNotes : HugoFilepath(p) \in DOMAIN destFiles

\* the artifacts, produced by an earlier pass, of the source files removed
\* before the current or last pass
RemovedArtifacts ==
  {HugoFilepath(r) : r \in {x \in lost : Basename(x) # IndexMd}}
    \cap {q \in DOMAIN startDest : startDest[q].kind = "hugo"}

\* C5: a pass run after a source file was removed removes the artifact
\* produced from it and leaves every other file of that destination folder
\* in place with its content, files never produced from the source included.
C5_DeletionFrame ==
  frame.pc = "returned" =>
    \A a \in RemovedArtifacts :
      /\ a \notin DOMAIN destFiles
      /\ \A q \in DOMAIN startDest :
           (q \notin RemovedArtifacts /\ Parent(q) = Parent(a)) =>
             (q \in DOMAIN destFiles /\ destFiles[q] = startDest[q])

IndexFiles(df) == {p \in DOMAIN df : Basename(p) = IndexMd}

\* C6: no step of any pass overwrites, modifies or deletes an _index.md that
\* exists in the destination tree, whatever was done to the source tree.
C6_IndexProtected ==
  [][\A p \in IndexFiles(destFiles) :
       p \in DOMAIN destFiles' /\ destFiles'[p] = destFiles[p]]_vars

\* a pass has returned over two source folders that map to one destination
\* folder whose _index.md was there before the pass, after a source change
C6_Witness ==
  /\ frame.pc = "returned" /\ nChanges > 0
  /\ {DirAb, DirA_b} \subseteq srcDirs
  /\ Append(DestA_b, IndexMd) \in DOMAIN startDest
  /\ FileAbIndex \in DOMAIN srcFiles

\* C7: a failure of convert_and_copy on one source file does not end the
\* pass: sync_folders is never left by an exception raised for a source note.
C7_FailureIsolated ==
  ~(frame.pc = "raised" /\ frame.err \in SourceNotes)

\* C8: a source file whose header is not valid structured data does not
\* abort the pass, and once the pass has returned its artifact exists with
\* the title derived from the file stem.
C8_MalformedFallback ==
  \A p \in SourceNotes :
    srcFiles[p].kind = "invalid" =>
      /\ ~(frame.pc = "raised" /\ frame.err = p)
      /\ (frame.pc = "returned" /\ clean) =>
           /\ HugoFilepath(p) \in DOMAIN destFiles
           /\ \E q \in SourceNotes :
                /\ HugoFilepath(q) = HugoFilepath(p)
                /\ destFiles[HugoFilepath(p)].meta["title"] \in
                     {SplitextStem(Basename(q)), <<"T">>}

\* the _index.md of the destination folder of source folder d
FolderIndexPath(d) == Append(DestFolderOfDir(d), IndexMd)

\* C11: after a pass that returned, every source folder whose destination
\* folder held no _index.md when the pass began has an _index.md there that
\* create_index_file wrote, with title and meta_title equal to the folder's
\* own, unslugified name; this also when several source folders have the
\* same destination folder.
C11_FolderIndexTitle ==
  (frame.pc = "returned" /\ clean) =>
    \A d \in srcDirs :
      FolderIndexPath(d) \notin DOMAIN startDest =>
        /\ FolderIndexPath(d) \in DOMAIN destFiles
        /\ destFiles[FolderIndexPath(d)].kind = "index"
        /\ destFiles[FolderIndexPath(d)].meta["title"] = Basename(d)
        /\ destFiles[FolderIndexPath(d)].meta["meta_title"] = Basename(d)

\* the Timers that are armed: started, not cancelled, not yet fired
Armed == {i \in TimerIds : timers[i].st = "waiting"}

\* the step in which Timer i reads self.modified_files for the commit
\* message (line 138) or clears it (line 176)
TouchesPending(i) ==
  \/ timers[i].st = "commit" /\ timers'[i].st = "push"
  \/ timers[i].st = "clear" /\ timers'[i].st = "done"

\* C12: at most one timer is armed, and handle_event's adding of a path and
\* re-arming of the timer are one atomic step: while the handler stands
\* between the two, no timer fires and no pass reads or clears the pending
\* set.
C12_CriticalSection ==
  [][/\ Cardinality(Armed') <= 1
     /\ obs.pc # "idle" =>
          \A i \in TimerIds : ~Fires(i) /\ ~TouchesPending(i)]_vars

\* the slug of every segment of source folder d below its language folder
SegmentSlugs(d) == [i \in 1..(Len(d) - 1) |-> slugify(d[i + 1])]

\* the destination folder with one segment for each of them
NestedDest(d) == <<d[1], resources>> \o SegmentSlugs(d)

\* C13: the destination folder of a source folder, and of a source file's
\* parent, has one nested segment, the segment's slug, for every segment of
\* the source path; after a pass that folder exists; and two source folders
\* whose sequences of slugs differ have different destination folders.
C13_NestingPreserved ==
  (frame.pc = "returned" /\ clean) =>
    /\ \A d \in srcDirs :
         DestFolderOfDir(d) = NestedDest(d) /\ NestedDest(d) \in destDirs
    /\ \A p \in DOMAIN srcFiles :
         Len(p) >= 2 => DestFolderOfFile(p) = NestedDest(Parent(p))
    /\ \A d, e \in srcDirs :
         (d[1] # e[1] \/ SegmentSlugs(d) # SegmentSlugs(e))
           => DestFolderOfDir(d) # DestFolderOfDir(e)

\* the loop over files stands before an iteration
AtFile == frame.pc = "walk" /\ frame.dirs = <<>> /\ frame.files # <<>>

\* the source file of that iteration
NextFile == Append(frame.root, Head(frame.files))

\* that iteration reaches shutil.copy2(src_file, dest_file) (line 206)
CopiesMarker ==
  /\ AtFile
  /\ Head(frame.files) = IndexMd
  /\ ~DestExists(World, Append(DestFolderOfFile(NextFile), IndexMd))

\* the destination files that a step writes: the new and the changed ones
Written ==
  {p \in DOMAIN destFiles' : p \notin DOMAIN destFiles \/ destFiles'[p] # destFiles[p]}

\* C14: the destination folder of every file that a pass writes or copies
\* exists at the moment of the write: the folder of a written file is there,
\* and shutil.copy2 is only reached when the folder it copies into exists,
\* for a source _index.md at the source root as for any other.
C14_FolderBeforeFile ==
  [][/\ \A p \in Written : Parent(p) \in destDirs'
     /\ CopiesMarker => DestFolderOfFile(NextFile) \in destDirs]_vars

\* the destination files that a step removes
Unlinked == DOMAIN destFiles \ DOMAIN destFiles'

\* the source files renamed since the pass before: <<old path, new path>>
Renamed ==
  {pr \in lost \X DOMAIN srcFiles :
     /\ pr[1] \notin DOMAIN srcFiles
     /\ Basename(pr[1]) = Basename(pr[2])
     /\ Basename(pr[1]) # IndexMd}

SyncReturns ==
  RunSync(srcDirs, srcFiles, scanRev,
          [fr |-> IdleFrame, dd |-> destDirs, df |-> destFiles]).fr.pc = "returned"

\* C16: a pass calls git_commit_and_push only after its sync_folders call
\* has returned without error; a publish fetches, then merges the tracking
\* branch, and that only when the local branch is behind it, then stages
\* and commits, then pushes; and a pass that a failing step has ended
\* runs no further step.
C16_PublishOrder ==
  [][\A i \in TimerIds :
       LET was == timers[i].st
           now == timers'[i].st
       IN was # now =>
            /\ now = "fetch" => (was = "sync" /\ SyncReturns)
            /\ now = "merge" => was = "fetch"
            /\ now = "merging" => (was = "merge" /\ repo.behind)
            /\ now = "commit" => was \in {"merge", "merging"}
            /\ now = "push" => was = "commit"
            /\ now = "clear" => was = "push"
            /\ was # "died"]_vars

\* the step of lines 207-210 that converts the next file without raising
Converts ==
  /\ AtFile
  /\ Head(frame.files) # IndexMd
  /\ frame' # frame
  /\ frame'.pc # "raised"

\* C17: the header written for a note has the title of the input header
\* when it has one and else the file's stem, a meta_title equal to that
\* title, and a type, "blog", exactly when a folder of the note's relative
\* folder path is named blog in any letter case; else it has no type,
\* whatever the input header held.
C17_HeaderRewritten ==
  [][Converts =>
       LET given == frontmatter_load(srcFiles[NextFile]).metadata
           out == destFiles'[HugoFilepath(NextFile)].meta
           title == IF "title" \in DOMAIN given THEN given["title"]
                    ELSE SplitextStem(Basename(NextFile))
       IN /\ out["title"] = title
          /\ out["meta_title"] = title
          /\ "type" \in DOMAIN out <=> HasBlogSegment(Parent(NextFile))
          /\ "type" \in DOMAIN out => out["type"] = Blog]_vars

\* the next file of the walk lies in a folder below the source root
AtFileBelowRoot == AtFile /\ Len(NextFile) >= 2

\* C18: when a pass comes to a file of a source folder below the source
\* root, the _index.md of that folder's destination folder is already
\* there, generated while the parent's directories were processed or left
\* from before; so the step for a source _index.md in such a folder copies
\* nothing, and every _index.md a pass writes below a language folder is a
\* generated one, never a source marker's content.
C18_IndexBeforeFiles ==
  [][/\ AtFileBelowRoot =>
          DestExists(World, Append(DestFolderOfFile(NextFile), IndexMd))
     /\ (AtFileBelowRoot /\ Head(frame.files) = IndexMd) =>
          (destFiles' = destFiles /\ destDirs' = destDirs)
     /\ \A p \in Written :
          (Basename(p) = IndexMd /\ p[1] # IndexMd) =>
             destFiles'[p].kind = "index"]_vars

C18_Witness ==
  /\ frame.pc = "returned"
  /\ FileAbIndex \in DOMAIN srcFiles
  /\ Append(DestFolderOfFile(FileAbIndex), IndexMd) \notin DOMAIN startDest
  /\ Append(DestFolderOfFile(FileAbIndex), IndexMd) \in DOMAIN destFiles
  /\ destFiles[Append(DestFolderOfFile(FileAbIndex), IndexMd)].kind = "index"

\* C19: every qualifying event the handler has taken (its path is added,
\* line 165) is followed by the start of a pass that begins after it, also
\* when it comes while a pass is running or after a pass has died; events
\* stop arriving, and an armed timer fires.
C19_EventLeadsToPass ==
  \A n \in 0..MaxEvents :
    (obs.pc = "cancel" /\ started = n) ~> (started > n)

C19_Witness ==
  /\ timers[1].st \in InPass \cup {"died"}
  /\ timers[2].st = "sync"
  /\ started = 2
  /\ obs.pc = "idle"

\* the sync_folders call that a Timer thread standing on line 174 makes
SyncOutcome ==
  RunSync(srcDirs, srcFiles, scanRev,
          [fr |-> IdleFrame, dd |-> destDirs, df |-> destFiles])

\* C20: when a step of the walk in sync_folders raises, the pass ends
\* there: it deletes no destination file, it does not get to
\* git_commit_and_push (the repository stays as it is) nor to the clear of
\* the pending set, and what it wrote before the error is in the
\* destination tree: the produced artifacts and the index file of every
\* folder above the entry at fault.
C20_RaiseStopsPass ==
  [][\A i \in TimerIds :
       /\ (timers[i].st = "sync" /\ timers'[i].st # "sync"
             /\ SyncOutcome.fr.err # <<>>) =>
            /\ timers'[i].st = "died"
            /\ Unlinked = {}
            /\ repo' = repo
            /\ modified_files' = modified_files
            /\ \A p \in SyncOutcome.fr.src_files_set :
                 p \in DOMAIN destFiles' /\ destFiles'[p].kind = "hugo"
            /\ \A d \in srcDirs \cap Prefixes(Parent(SyncOutcome.fr.err)) :
                 FolderIndexPath(d) \in DOMAIN destFiles'
       /\ timers[i].st = "died" => timers'[i].st = "died"]_vars

C20_Witness ==
  /\ \E i \in TimerIds : timers[i].st = "died"
  /\ srcFiles[FileAbN] = ContentInvalid
  /\ repo.head = <<>>
  /\ modified_files # {}
  /\ Append(DestA_b, NameManualMd) \in DOMAIN destFiles
  /\ FolderIndexPath(DirAb) \in DOMAIN destFiles
  /\ destFiles[FolderIndexPath(DirAb)].kind = "index"

====
